---- MODULE Spec2Model ----
(***************************************************************************)
(* Model of the CSP engine of map-coloring: CSP.py (the constraint model:  *)
(* variables, domains, constraints, assignment state with undo) and        *)
(* Solver.py (recursive backtracking with optional AC-3, MRV and LCV).     *)
(*                                                                         *)
(* The CSP object is the record csp; every method of CSP is an operator    *)
(* from a csp record to the csp record it leaves behind. The recursion of  *)
(* Solver.backtrack_solver is an explicit stack of frames, one action per  *)
(* step of the procedure.                                                  *)
(***************************************************************************)
EXTENDS Integers, Sequences, FiniteSets, TLC

VARIABLES
    csp,        \* the CSP object (CSP.py:35-40)
    heur,       \* the Solver's three flags (Solver.py:19-21)
    stack,      \* the frames of backtrack_solver in flight, innermost last
    outcome,    \* "building", "running", "success", "failure" or "KeyError"
    added,      \* history: the domain each add_variable call registered
    calls,      \* history: the add_constraint calls as the caller made them
    api         \* history: the (variable, value, log, domains) of API round trips

vars == <<csp, heur, stack, outcome, added, calls, api>>

----------------------------------------------------------------------------
(* Bounds of the model *)

\* the variables, in the order add_variable registers them
Vars == <<"A", "B", "C">>

\* the colours, in domain order
Colors == <<"Red", "Blue", "Green">>

\* a script registers at most this many equality constraints
MaxEq == 1

\* a build made call by call holds at most this many add_constraint calls
MaxCalls == 3

----------------------------------------------------------------------------
(* Values and predicates *)

VarSet == {Vars[i] : i \in DOMAIN Vars}

\* what is_consistent passes for a partner that has no assignment: Python's []
EmptyList == "[]"

\* "neq" is lambda x, y: x != y; "eq" is lambda x, y: x == y
Preds == {"neq", "eq"}

\* constraint_func(x, y); a colour never equals [], so neq(x, []) is True and
\* eq(x, []) is False, as in Python
Apply(f, x, y) == IF f = "neq" THEN x # y ELSE x = y

Range(s) == {s[i] : i \in DOMAIN s}

EmptyFn == [v \in {} |-> v]

\* list.remove(v): drops the first occurrence of v
ListRemove(s, v) ==
    LET i == CHOOSE k \in DOMAIN s : s[k] = v /\ \A j \in 1..(k - 1) : s[j] # v
    IN  SubSeq(s, 1, i - 1) \o SubSeq(s, i + 1, Len(s))

\* del d[k]
DictDel(d, k) == [v \in (DOMAIN d) \ {k} |-> d[v]]

\* d[k] = x
DictSet(d, k, x) == [v \in (DOMAIN d) \cup {k} |-> IF v = k THEN x ELSE d[v]]

----------------------------------------------------------------------------
(* CSP.py *)

CSP_init ==
    [variables |-> EmptyFn, constraints |-> <<>>, unassigned_var |-> <<>>,
     var_constraints |-> EmptyFn, assignments |-> EmptyFn,
     assignments_number |-> 0]

\* a constraint is <<constraint_func, <<A, B>>>>
add_constraint(c, constraint_func, variables) ==
    LET variable == variables[1]
        vc == IF variable \in DOMAIN c.var_constraints
                THEN c.var_constraints
                ELSE DictSet(c.var_constraints, variable, <<>>)
        lst == vc[variable]
        exists == \E i \in DOMAIN lst : variables[2] = lst[i][2][2]
        \* the loop variable of line 57 is named constraint_func too: after the
        \* loop the name holds the function of the last constraint keyed on
        \* variable, when there is one
        func == IF lst = <<>> THEN constraint_func ELSE lst[Len(lst)][1]
    IN  IF exists
          THEN [c EXCEPT !.var_constraints = vc]
          ELSE [c EXCEPT !.var_constraints = DictSet(vc, variable, Append(lst, <<func, variables>>)),
                         !.constraints = Append(@, <<func, variables>>)]

add_variable(c, variable, domain) ==
    [c EXCEPT !.variables = DictSet(@, variable, domain),
              !.unassigned_var = Append(@, variable)]

is_consistent(c, variable, value) ==
    IF variable \notin DOMAIN c.var_constraints
      THEN TRUE
      ELSE \A i \in DOMAIN c.var_constraints[variable] :
              LET con == c.var_constraints[variable][i]
                  related_values == IF con[2][2] \in DOMAIN c.assignments
                                      THEN c.assignments[con[2][2]]
                                      ELSE EmptyList
              IN  Apply(con[1], value, related_values)

\* the state assign leaves; its return value is assign_returns
assign(c, variable, value) ==
    [c EXCEPT !.assignments = DictSet(@, variable, value),
              !.unassigned_var = ListRemove(@, variable),
              !.assignments_number = @ + 1]

assign_returns(c, variable, value) ==
    is_consistent(assign(c, variable, value), variable, value)

\* is_complete that is satisfied with one variable left pending
is_complete_OneLeft(c) == Len(c.unassigned_var) <= 1

is_complete(c) == Len(c.unassigned_var) = 0

is_assigned(c, variable) == variable \notin Range(c.unassigned_var)

RECURSIVE restore_value(_, _)
restore_value(variables, removed) ==
    IF removed = <<>>
      THEN variables
      ELSE LET e == Head(removed)
           IN  restore_value([variables EXCEPT ![e[1]] = Append(@, e[2])], Tail(removed))

\* unassign that forgets line 153, del self.assignments[variable]
unassign_KeepsAssignment(c, removed_values_from_domain, variable) ==
    IF variable \in DOMAIN c.assignments
      THEN [c EXCEPT !.unassigned_var = Append(@, variable),
                     !.variables = restore_value(@, removed_values_from_domain)]
      ELSE c

\* unassign that takes the undone attempt off the counter
unassign_Uncounts(c, removed_values_from_domain, variable) ==
    IF variable \in DOMAIN c.assignments
      THEN [c EXCEPT !.assignments = DictDel(@, variable),
                     !.unassigned_var = Append(@, variable),
                     !.variables = restore_value(@, removed_values_from_domain),
                     !.assignments_number = @ - 1]
      ELSE c

\* unassign that forgets line 155, the restore_value call
unassign_NoRestore(c, removed_values_from_domain, variable) ==
    IF variable \in DOMAIN c.assignments
      THEN [c EXCEPT !.assignments = DictDel(@, variable),
                     !.unassigned_var = Append(@, variable)]
      ELSE c

unassign(c, removed_values_from_domain, variable) ==
    IF variable \in DOMAIN c.assignments
      THEN [c EXCEPT !.assignments = DictDel(@, variable),
                     !.unassigned_var = Append(@, variable),
                     !.variables = restore_value(@, removed_values_from_domain)]
      ELSE c

\* [(variable, v) for v in values]
RECURSIVE Tagged(_, _)
Tagged(variable, values) ==
    IF values = <<>>
      THEN <<>>
      ELSE <<<<variable, Head(values)>>>> \o Tagged(variable, Tail(values))

\* lines 163-167: the loop over the constraints keyed on the variable
RECURSIVE remove_from_neighbors(_, _, _, _)
remove_from_neighbors(variables, removed, lst, value) ==
    IF lst = <<>>
      THEN [variables |-> variables, removed |-> removed]
      ELSE LET neighbor == Head(lst)[2][2]
           IN  IF value \in Range(variables[neighbor])
                 THEN remove_from_neighbors(
                        [variables EXCEPT ![neighbor] = ListRemove(@, value)],
                        Append(removed, <<neighbor, value>>), Tail(lst), value)
                 ELSE remove_from_neighbors(variables, removed, Tail(lst), value)

\* [csp, removed, raised]: raised is the KeyError of line 163 for a variable
\* that no constraint is keyed on; the domain is collapsed before it is raised
remove_value(c, variable, value) ==
    LET dom == c.variables[variable]
        others == SelectSeq(dom, LAMBDA v : v # value)
        removed == Tagged(variable, others)
        collapsed == [c.variables EXCEPT ![variable] = <<value>>]
    IN  IF variable \notin DOMAIN c.var_constraints
          THEN [csp |-> [c EXCEPT !.variables = collapsed], removed |-> <<>>, raised |-> TRUE]
          ELSE LET r == remove_from_neighbors(collapsed, removed,
                                              c.var_constraints[variable], value)
               IN  [csp |-> [c EXCEPT !.variables = r.variables],
                    removed |-> r.removed, raised |-> FALSE]

----------------------------------------------------------------------------
(* Solver.py: the heuristics and AC-3 *)

\* the for loop of arc_reduce walks the list it removes from: i is the 0-based
\* position of Python's list iterator, which moves on by one after each
\* element whether or not the element was removed
RECURSIVE arc_reduce_loop(_, _, _, _, _)
arc_reduce_loop(xs, i, ys, consistent, removed_values) ==
    IF i >= Len(xs)
      THEN [domain |-> xs, removed_values |-> removed_values]
      ELSE LET x_value == xs[i + 1]
           IN  IF \A k \in DOMAIN ys : ~Apply(consistent, x_value, ys[k])
                 THEN LET rest == ListRemove(xs, x_value)
                      IN  IF Len(rest) = 0
                            THEN [domain |-> rest,
                                  removed_values |-> Append(removed_values, x_value)]
                            ELSE arc_reduce_loop(rest, i + 1, ys, consistent,
                                                 Append(removed_values, x_value))
                 ELSE arc_reduce_loop(xs, i + 1, ys, consistent, removed_values)

\* [domain, removed_values]: the domain of x after the call, and what it returns
arc_reduce(c, x, y, consistent) ==
    arc_reduce_loop(c.variables[x], 0, c.variables[y], consistent, <<>>)

\* lines 142-148: the first variable of unassigned_var with the fewest values
MRV(c) ==
    LET u == c.unassigned_var
        i == CHOOSE k \in DOMAIN u :
                /\ \A j \in DOMAIN u : Len(c.variables[u[k]]) <= Len(c.variables[u[j]])
                /\ \A j \in 1..(k - 1) : Len(c.variables[u[j]]) > Len(c.variables[u[k]])
    IN  u[i]

\* count_constraints that leaves out the test of line 166 for an assigned
\* partner
count_constraints_CountsAssigned(c, variable, value) ==
    IF variable \in DOMAIN c.var_constraints
      THEN Cardinality({i \in DOMAIN c.var_constraints[variable] :
                LET var == c.var_constraints[variable][i][2][2]
                IN  value \in Range(c.variables[var])})
      ELSE 0

\* count_constraints of LCV, lines 161-168
count_constraints(c, variable, value) ==
    IF variable \in DOMAIN c.var_constraints
      THEN Cardinality({i \in DOMAIN c.var_constraints[variable] :
                LET var == c.var_constraints[variable][i][2][2]
                IN  ~is_assigned(c, var) /\ value \in Range(c.variables[var])})
      ELSE 0

\* sorted(domain, key): Python's sort is stable, so the result is the values
\* of key k in domain order, for k = 0, 1, ...
RECURSIVE sorted_from(_, _, _, _)
sorted_from(c, variable, k, top) ==
    IF k > top
      THEN <<>>
      ELSE SelectSeq(c.variables[variable],
                     LAMBDA v : count_constraints(c, variable, v) = k)
           \o sorted_from(c, variable, k + 1, top)

LCV(c, variable) ==
    sorted_from(c, variable, 0,
                IF variable \in DOMAIN c.var_constraints
                  THEN Len(c.var_constraints[variable]) ELSE 0)

select_unassigned_variable(c, h) ==
    IF h.variable_heuristic THEN MRV(c) ELSE c.unassigned_var[1]

ordered_domain_value(c, h, variable) ==
    IF h.domain_heuristic THEN LCV(c, variable) ELSE c.variables[variable]

----------------------------------------------------------------------------
(* Solver.py: backtrack_solver as a stack of frames *)

NoVar == "-"

\* a call of backtrack_solver: line 33 runs apply_AC3 first when AC_3 is
\* set, over a queue seeded with every constraint (line 109)
NewFrame(c, h) ==
    [pc |-> IF h.AC_3 /\ c.constraints # <<>> THEN "ac3" ELSE "select",
     queue |-> IF h.AC_3 THEN c.constraints ELSE <<>>,
     removed |-> <<>>,
     variable |-> NoVar,
     values |-> <<>>,
     i |-> 0,
     before |-> c.variables]

Top == stack[Len(stack)]

SetTop(f) == [stack EXCEPT ![Len(stack)] = f]

Running == outcome = "running" /\ stack # <<>>

\* apply_AC3 that puts the arcs into x back on the queue when the domain of x
\* has shrunk, as a full AC-3 does
AC3Step_Requeues ==
    /\ Running /\ Top.pc = "ac3"
    /\ LET constraint == Head(Top.queue)[1]
           x == Head(Top.queue)[2][1]
           y == Head(Top.queue)[2][2]
           r == arc_reduce(csp, x, y, constraint)
           rest == Tail(Top.queue)
                     \o (IF r.removed_values = <<>>
                           THEN <<>>
                           ELSE SelectSeq(csp.constraints, LAMBDA con : con[2][2] = x))
       IN  /\ csp' = [csp EXCEPT !.variables[x] = r.domain]
           /\ stack' = SetTop([Top EXCEPT
                  !.removed = @ \o Tagged(x, r.removed_values),
                  !.queue = rest,
                  !.pc = IF Len(r.domain) = 0 \/ rest = <<>> THEN "select" ELSE "ac3"])
    /\ UNCHANGED <<heur, outcome, added, calls, api>>

\* one turn of the while loop of apply_AC3 (lines 111-124); the loop ends when
\* the domain of x is empty or the queue is
AC3Step ==
    /\ Running /\ Top.pc = "ac3"
    /\ LET constraint == Head(Top.queue)[1]
           x == Head(Top.queue)[2][1]
           y == Head(Top.queue)[2][2]
           r == arc_reduce(csp, x, y, constraint)
           rest == Tail(Top.queue)
       IN  /\ csp' = [csp EXCEPT !.variables[x] = r.domain]
           /\ stack' = SetTop([Top EXCEPT
                  !.removed = @ \o Tagged(x, r.removed_values),
                  !.queue = rest,
                  !.pc = IF Len(r.domain) = 0 \/ rest = <<>> THEN "select" ELSE "ac3"])
    /\ UNCHANGED <<heur, outcome, added, calls, api>>

\* lines 35-36: every variable is assigned; the result goes up through every
\* caller (lines 45-46)
ReturnComplete ==
    /\ Running /\ Top.pc = "select"
    /\ is_complete(csp)
    /\ outcome' = "success"
    /\ stack' = <<>>
    /\ UNCHANGED <<csp, heur, added, calls, api>>

\* lines 38-39: the variable and the list of values the for loop walks
SelectVariable ==
    /\ Running /\ Top.pc = "select"
    /\ ~is_complete(csp)
    /\ LET variable == select_unassigned_variable(csp, heur)
       IN  stack' = SetTop([Top EXCEPT
                  !.pc = "loop",
                  !.variable = variable,
                  !.values = ordered_domain_value(csp, heur, variable),
                  !.i = 1])
    /\ UNCHANGED <<csp, heur, outcome, added, calls, api>>

\* lines 40-41
Tries(c, variable, value) ==
    is_consistent(c, variable, value) /\ ~is_assigned(c, variable)

\* a value the tests of lines 40-41 pass over
SkipValue ==
    /\ Running /\ Top.pc = "loop" /\ Top.i <= Len(Top.values)
    /\ ~Tries(csp, Top.variable, Top.values[Top.i])
    /\ stack' = SetTop([Top EXCEPT !.i = @ + 1])
    /\ UNCHANGED <<csp, heur, outcome, added, calls, api>>

\* lines 42-44: assign, remove_value, and the recursive call
TryValue ==
    /\ Running /\ Top.pc = "loop" /\ Top.i <= Len(Top.values)
    /\ Tries(csp, Top.variable, Top.values[Top.i])
    /\ LET value == Top.values[Top.i]
           r == remove_value(assign(csp, Top.variable, value), Top.variable, value)
       IN  /\ ~r.raised
           /\ csp' = r.csp
           /\ stack' = Append(SetTop([Top EXCEPT
                                 !.pc = "wait",
                                 !.removed = @ \o r.removed,
                                 !.before = csp.variables]),
                              NewFrame(r.csp, heur))
    /\ UNCHANGED <<heur, outcome, added, calls, api>>

\* lines 42-43 when remove_value raises: nothing catches the KeyError, and
\* backtrack_solver ends with it
TryValueRaises ==
    /\ Running /\ Top.pc = "loop" /\ Top.i <= Len(Top.values)
    /\ Tries(csp, Top.variable, Top.values[Top.i])
    /\ LET value == Top.values[Top.i]
           r == remove_value(assign(csp, Top.variable, value), Top.variable, value)
       IN  /\ r.raised
           /\ csp' = r.csp
    /\ outcome' = "KeyError"
    /\ UNCHANGED <<heur, stack, added, calls, api>>

\* line 50 in a recursive call, then lines 45-48 in its caller: unassign with
\* the caller's log, and the log is emptied
Backtrack ==
    /\ Running /\ Top.pc = "loop" /\ Top.i > Len(Top.values)
    /\ Len(stack) > 1
    /\ LET caller == stack[Len(stack) - 1]
       IN  /\ csp' = unassign(csp, caller.removed, caller.variable)
           /\ stack' = [SubSeq(stack, 1, Len(stack) - 1) EXCEPT ![Len(stack) - 1] =
                            [caller EXCEPT !.pc = "loop", !.removed = <<>>, !.i = @ + 1]]
    /\ UNCHANGED <<heur, outcome, added, calls, api>>

\* line 50 in the outermost call
ReturnNone ==
    /\ Running /\ Top.pc = "loop" /\ Top.i > Len(Top.values)
    /\ Len(stack) = 1
    /\ outcome' = "failure"
    /\ stack' = <<>>
    /\ UNCHANGED <<csp, heur, added, calls, api>>

----------------------------------------------------------------------------
(* The models solve is run on *)

\* the directed pairs, edge by edge and both directions of an edge together
ArcOrder ==
    << <<"A", "B">>, <<"B", "A">>, <<"B", "C">>, <<"C", "B">>, <<"A", "C">>, <<"C", "A">> >>

\* a script says of every directed pair whether add_constraint is called for
\* it, and with which predicate
Scripts ==
    {s \in [DOMAIN ArcOrder -> Preds \cup {"none"}] :
        Cardinality({k \in DOMAIN s : s[k] = "eq"}) <= MaxEq}

\* the add_constraint calls of a script, in ArcOrder
RECURSIVE CallsOf(_, _)
CallsOf(s, k) ==
    IF k > Len(ArcOrder)
      THEN <<>>
      ELSE (IF s[k] = "none" THEN <<>> ELSE << <<s[k], ArcOrder[k]>> >>) \o CallsOf(s, k + 1)

\* a domain is the first n colours
DomainChoices == {SubSeq(Colors, 1, n) : n \in 1..Len(Colors)}

RECURSIVE AddVariables(_, _, _)
AddVariables(c, doms, k) ==
    IF k > Len(Vars)
      THEN c
      ELSE AddVariables(add_variable(c, Vars[k], doms[k]), doms, k + 1)

RECURSIVE AddConstraints(_, _)
AddConstraints(c, cs) ==
    IF cs = <<>>
      THEN c
      ELSE AddConstraints(add_constraint(c, Head(cs)[1], Head(cs)[2]), Tail(cs))

\* main.py:66-87: the variables first, then the constraints
Build(doms, cs) == AddConstraints(AddVariables(CSP_init, doms, 1), cs)

Heuristics == [domain_heuristic : BOOLEAN, variable_heuristic : BOOLEAN, AC_3 : BOOLEAN]

\* a built model, a Solver on it (Solver.py:19-22), and backtrack_solver called
Init ==
    \E s \in Scripts, doms \in [DOMAIN Vars -> DomainChoices], h \in Heuristics :
        /\ added = [v \in VarSet |-> doms[CHOOSE k \in DOMAIN Vars : Vars[k] = v]]
        /\ calls = CallsOf(s, 1)
        /\ csp = Build(doms, calls)
        /\ heur = h
        /\ stack = <<NewFrame(csp, h)>>
        /\ outcome = "running"
        /\ api = <<>>

Next ==
    \/ AC3Step
    \/ ReturnComplete
    \/ SelectVariable
    \/ SkipValue
    \/ TryValue
    \/ TryValueRaises
    \/ Backtrack
    \/ ReturnNone

Spec == Init /\ [][Next]_vars

\* backtrack_solver is one sequential procedure: as long as a step is left to
\* take, it is taken
SpecFair == Spec /\ WF_vars(Next)

----------------------------------------------------------------------------
(* The model API called directly: a model built call by call, then one       *)
(* assign / remove_value / unassign round trip, as backtrack_solver makes it *)

NoHeuristics == [domain_heuristic |-> FALSE, variable_heuristic |-> FALSE, AC_3 |-> FALSE]

InitApi ==
    /\ csp = CSP_init
    /\ heur = NoHeuristics
    /\ stack = <<>>
    /\ outcome = "building"
    /\ added = EmptyFn
    /\ calls = <<>>
    /\ api = <<>>

Building == outcome = "building" /\ api = <<>>

\* csp.add_variable(variable, domain), the variables in the order of Vars
AddVariable ==
    /\ Building
    /\ Len(csp.unassigned_var) < Len(Vars)
    /\ \E domain \in DomainChoices :
          LET variable == Vars[Len(csp.unassigned_var) + 1]
          IN  /\ csp' = add_variable(csp, variable, domain)
              /\ added' = DictSet(added, variable, domain)
    /\ UNCHANGED <<heur, stack, outcome, calls, api>>

\* csp.add_constraint(constraint_func, [A, B]) between two registered
\* variables (main.py:86-87)
AddConstraint ==
    /\ Building
    /\ Len(calls) < MaxCalls
    /\ \E constraint_func \in Preds, A \in DOMAIN csp.variables, B \in DOMAIN csp.variables :
          /\ A # B
          /\ csp' = add_constraint(csp, constraint_func, <<A, B>>)
          /\ calls' = Append(calls, <<constraint_func, <<A, B>>>>)
    /\ UNCHANGED <<heur, stack, outcome, added, api>>

\* csp.assign(variable, value) for an unassigned variable and a value of its
\* domain
CallAssign ==
    /\ Building
    /\ \E variable \in Range(csp.unassigned_var) :
          \E value \in Range(csp.variables[variable]) :
              /\ csp' = assign(csp, variable, value)
              /\ api' = <<[variable |-> variable, value |-> value, log |-> <<>>,
                           before |-> csp.variables, stage |-> "assigned"]>>
    /\ UNCHANGED <<heur, stack, outcome, added, calls>>

\* log = csp.remove_value(variable, value)
CallRemoveValue ==
    /\ outcome = "building" /\ api # <<>> /\ api[1].stage = "assigned"
    /\ LET r == remove_value(csp, api[1].variable, api[1].value)
       IN  /\ ~r.raised
           /\ csp' = r.csp
           /\ api' = <<[api[1] EXCEPT !.log = r.removed, !.stage = "removed"]>>
    /\ UNCHANGED <<heur, stack, outcome, added, calls>>

\* csp.remove_value(variable, value) raising the KeyError of line 163
CallRemoveValueRaises ==
    /\ outcome = "building" /\ api # <<>> /\ api[1].stage = "assigned"
    /\ LET r == remove_value(csp, api[1].variable, api[1].value)
       IN  /\ r.raised
           /\ csp' = r.csp
    /\ outcome' = "KeyError"
    /\ UNCHANGED <<heur, stack, added, calls, api>>

\* csp.unassign(log, variable)
CallUnassign ==
    /\ outcome = "building" /\ api # <<>> /\ api[1].stage = "removed"
    /\ csp' = unassign(csp, api[1].log, api[1].variable)
    /\ api' = <<[api[1] EXCEPT !.stage = "unassigned"]>>
    /\ UNCHANGED <<heur, stack, outcome, added, calls>>

NextApi ==
    \/ AddVariable
    \/ AddConstraint
    \/ CallAssign
    \/ CallRemoveValue
    \/ CallRemoveValueRaises
    \/ CallUnassign

SpecApi == InitApi /\ [][NextApi]_vars

----------------------------------------------------------------------------
(* Properties: common definitions *)

\* the calls that are the first for their directed pair: the constraints the
\* caller registered
RECURSIVE FirstCalls(_, _)
FirstCalls(cs, k) ==
    IF k > Len(cs)
      THEN <<>>
      ELSE (IF \E j \in 1..(k - 1) : cs[j][2] = cs[k][2] THEN <<>> ELSE <<cs[k]>>)
           \o FirstCalls(cs, k + 1)

Registered == FirstCalls(calls, 1)

\* every constraint of cs holds of the values a binds
Satisfies(a, cs) ==
    \A k \in DOMAIN cs : Apply(cs[k][1], a[cs[k][2][1]], a[cs[k][2][2]])

\* exhaustive search: some value of each registered domain, all registered
\* constraints satisfied
Solvable ==
    \E a \in [VarSet -> Range(Colors)] :
        /\ \A v \in VarSet : a[v] \in Range(added[v])
        /\ Satisfies(a, Registered)

AllNeq == \A k \in DOMAIN calls : calls[k][1] = "neq"

BothDirections ==
    \A k \in DOMAIN calls :
        \E j \in DOMAIN calls : calls[j][2] = <<calls[k][2][2], calls[k][2][1]>>

AllKeyed == VarSet \subseteq DOMAIN csp.var_constraints

Returned == outcome \in {"success", "failure"}

\* two lists hold the same values, each as often
SameValues(s, t) == Range(s) = Range(t) /\ Len(s) = Len(t)

SameDomains(d, e) == \A v \in DOMAIN d : SameValues(d[v], e[v])

----------------------------------------------------------------------------
(* C1 *)

\* C1: whenever backtrack_solver returns a successful assignment, every
\* registered constraint (predicate, (A, B)) is true of the values of A and B,
\* for every heuristic configuration.
C1_Soundness ==
    outcome = "success" => Satisfies(csp.assignments, Registered)

\* what does hold: a returned assignment satisfies the constraints as
\* add_constraint stored them
C1_SoundForStored ==
    outcome = "success" => Satisfies(csp.assignments, csp.constraints)

(* C2 *)

\* C2: solve returns success if and only if exhaustive enumeration finds an
\* assignment satisfying every registered constraint, for each of the 8
\* heuristic configurations; stated here of the models whose constraints are
\* all != and registered in both directions, where no other defect of the
\* engine plays a part.
C2_Completeness ==
    (Returned /\ AllNeq /\ BothDirections) => (outcome = "success" <=> Solvable)

\* what does hold: without AC-3, on those models, the outcome is that of
\* exhaustive search
C2_CompleteWithoutAC3 ==
    (Returned /\ AllNeq /\ BothDirections /\ ~heur.AC_3)
        => (outcome = "success" <=> Solvable)

(* C3 *)

\* the innermost call has no value left and returns None to a caller, which
\* then unassigns (the step Backtrack)
AttemptFails ==
    /\ Running /\ Top.pc = "loop" /\ Top.i > Len(Top.values)
    /\ Len(stack) > 1

\* C3: when an attempt (assign, forward checking, the recursive call) fails,
\* then after the unassign every variable's domain holds exactly the values
\* it held immediately before the attempt began, none dropped and none twice,
\* for every heuristic configuration.
C3_UndoExact ==
    [][AttemptFails => SameDomains(csp'.variables, stack[Len(stack) - 1].before)]_vars

\* what does hold: the same with AC-3 disabled
C3_UndoExactWithoutAC3 ==
    [][(AttemptFails /\ ~heur.AC_3)
          => SameDomains(csp'.variables, stack[Len(stack) - 1].before)]_vars

(* C4 *)

\* C4: for every model built by add_variable and by add_constraint calls
\* between registered variables, solve ends with a success assignment or the
\* failure value and never with an error.
C4_NoFatalError ==
    outcome # "KeyError"

\* what does hold: no error when every variable has a constraint keyed on it
C4_NoErrorWhenKeyed ==
    AllKeyed => outcome # "KeyError"

(* C5 *)

Occurrences(s, v) == Cardinality({k \in DOMAIN s : s[k] = v})

\* C5: in every state reached while solve runs, every registered variable is
\* in exactly one of unassigned_var and assignments, and at most once in
\* unassigned_var; and solve never calls assign on a variable that has an
\* assignment.
C5_Partition ==
    /\ \A v \in DOMAIN csp.variables :
          /\ (v \in Range(csp.unassigned_var)) # (v \in DOMAIN csp.assignments)
          /\ Occurrences(csp.unassigned_var, v) <= 1
    /\ (Running /\ Top.pc = "loop" /\ Top.i <= Len(Top.values)
           /\ Tries(csp, Top.variable, Top.values[Top.i]))
          => Top.variable \notin DOMAIN csp.assignments

\* a variable was assigned and unassigned again, and another value is in
\* place while other variables are pending
C5_Witness ==
    /\ Running
    /\ csp.assignments_number > Cardinality(DOMAIN csp.assignments)
    /\ DOMAIN csp.assignments # {}
    /\ csp.unassigned_var # <<>>

(* C6 *)

Triangle == << <<"neq", <<"A", "B">>>>, <<"neq", <<"B", "C">>>>, <<"neq", <<"A", "C">>>> >>

AllDomainsAre(d) == \A v \in VarSet : added[v] = d

\* C6: with A, B, C added in that order and A != B, B != C, A != C
\* registered, solve returns failure when every domain is {Red, Blue}, and a
\* success assignment of three different colours when every domain is
\* {Red, Blue, Green}.
C6_Triangle ==
    (calls = Triangle /\ outcome # "running") =>
        /\ AllDomainsAre(<<"Red", "Blue">>) => outcome = "failure"
        /\ AllDomainsAre(<<"Red", "Blue", "Green">>) =>
              /\ outcome = "success"
              /\ Cardinality({csp.assignments[v] : v \in VarSet}) = 3

\* what does hold: the same when each of the three is registered in both
\* directions
C6_TriangleBothDirections ==
    (Len(calls) = Len(ArcOrder) /\ AllNeq /\ outcome # "running") =>
        /\ AllDomainsAre(<<"Red", "Blue">>) => outcome = "failure"
        /\ AllDomainsAre(<<"Red", "Blue", "Green">>) =>
              /\ outcome = "success"
              /\ Cardinality({csp.assignments[v] : v \in VarSet}) = 3

(* C7 *)

\* the constraints keyed on var
KeyedOn(c, var) ==
    IF var \in DOMAIN c.var_constraints THEN c.var_constraints[var] ELSE <<>>

\* every constraint keyed on var whose partner is assigned holds of value
AssignedPartnersAgree(c, var, value) ==
    \A k \in DOMAIN KeyedOn(c, var) :
        LET con == KeyedOn(c, var)[k]
        IN  con[2][2] \in DOMAIN c.assignments
              => Apply(con[1], value, c.assignments[con[2][2]])

\* C7: is_consistent(var, value) and assign(var, value) never reject a value
\* because of a constraint whose partner is unassigned: if every constraint
\* keyed on var with an assigned partner is satisfied, the result is true,
\* for every predicate.
C7_UnassignedPartnerPasses ==
    (Running /\ Top.pc = "loop") =>
        \A var \in Range(csp.unassigned_var) : \A value \in Range(Colors) :
            AssignedPartnersAgree(csp, var, value)
              => /\ is_consistent(csp, var, value)
                 /\ assign_returns(csp, var, value)

\* what does hold: the same when the constraints keyed on var are all !=
C7_PassesForNeq ==
    \A var \in Range(csp.unassigned_var) : \A value \in Range(Colors) :
        (/\ AssignedPartnersAgree(csp, var, value)
         /\ \A k \in DOMAIN KeyedOn(csp, var) : KeyedOn(csp, var)[k][1] = "neq")
          => /\ is_consistent(csp, var, value)
             /\ assign_returns(csp, var, value)

(* C8 *)

\* the partners of the constraints keyed on var
Neighbors(c, var) == {KeyedOn(c, var)[k][2][2] : k \in DOMAIN KeyedOn(c, var)}

\* what the log of remove_value(var, value) is to list, the domains being d
ExpectedLog(c, d, var, value) ==
    {<<var, v>> : v \in Range(d[var]) \ {value}}
        \cup {<<n, value>> : n \in {m \in Neighbors(c, var) : value \in Range(d[m])}}

RoundTripResult(t) ==
    /\ t.stage \in {"removed", "unassigned"} =>
          /\ Range(t.log) = ExpectedLog(csp, t.before, t.variable, t.value)
          /\ Len(t.log) = Cardinality(ExpectedLog(csp, t.before, t.variable, t.value))
    /\ t.stage = "removed" => csp.variables[t.variable] = <<t.value>>
    /\ t.stage = "unassigned" =>
          /\ t.variable \notin DOMAIN csp.assignments
          /\ t.variable \in Range(csp.unassigned_var)
          /\ SameDomains(csp.variables, t.before)

\* C8: for an unassigned registered variable var and a value of its domain,
\* assign(var, value), log = remove_value(var, value), unassign(log, var) go
\* through; remove_value leaves var's domain [value] and its log lists every
\* other value of var's domain and one (neighbour, value) per neighbour
\* domain that held value; after unassign var is unassigned and every domain
\* holds the values it held before, none twice.
C8_RoundTrip ==
    api # <<>> => (outcome # "KeyError" /\ RoundTripResult(api[1]))

\* what does hold: the same for the round trips remove_value does not raise in
C8_RoundTripWhenKeyed ==
    (api # <<>> /\ outcome # "KeyError") => RoundTripResult(api[1])

(* C9 *)

\* the constraints of cs whose first variable is v
RECURSIVE ConstraintsOn(_, _)
ConstraintsOn(cs, v) ==
    IF cs = <<>>
      THEN <<>>
      ELSE (IF Head(cs)[2][1] = v THEN <<Head(cs)>> ELSE <<>>) \o ConstraintsOn(Tail(cs), v)

\* cs without the predicates
RECURSIVE PairsOf(_)
PairsOf(cs) == IF cs = <<>> THEN <<>> ELSE <<Head(cs)[2]>> \o PairsOf(Tail(cs))

\* C9: after any sequence of add_constraint calls the flat list and the
\* per-variable index hold the same constraints, at most one for each
\* directed pair (A, B), and it is the first one registered for that pair; a
\* later call for (A, B) changes nothing, a call for (B, A) is kept.
C9_FirstWriterWins ==
    /\ csp.constraints = Registered
    /\ \A v \in VarSet : KeyedOn(csp, v) = ConstraintsOn(Registered, v)

\* what does hold: the same of the directed pairs, whatever the predicate
\* stored with them
C9_FirstPairWins ==
    /\ PairsOf(csp.constraints) = PairsOf(Registered)
    /\ \A v \in VarSet : KeyedOn(csp, v) = ConstraintsOn(csp.constraints, v)

(* C10 *)

\* a step that calls assign (line 42)
CallsAssign == TryValue \/ TryValueRaises

\* C10: assignments_number starts at 0, goes up by exactly 1 with every
\* assign of the search and is changed by nothing else, unassign and
\* backtracking included, so that when solve returns it is the number of
\* assign calls made; on success it is at least the number of variables.
C10_Counter ==
    /\ csp.assignments_number = 0
    /\ [][csp'.assignments_number =
            csp.assignments_number + (IF CallsAssign THEN 1 ELSE 0)]_vars
    /\ [](outcome = "success" => csp.assignments_number >= Len(Vars))

\* solve returned success after more assign calls than there are variables:
\* some were undone by unassign
C10_Witness ==
    outcome = "success" /\ csp.assignments_number > Len(Vars)

(* C11 *)

\* the variable of S that add_variable registered first
EarliestAdded(S) ==
    Vars[CHOOSE k \in DOMAIN Vars :
            Vars[k] \in S /\ \A j \in 1..(k - 1) : Vars[j] \notin S]

Pending == Range(csp.unassigned_var)

\* the variable the step SelectVariable has selected
Selected == stack'[Len(stack')].variable

\* some attempt of the search has been undone by unassign
HasBacktracked == csp.assignments_number > Cardinality(DOMAIN csp.assignments)

\* C11: with MRV disabled, at every call of select_unassigned_variable
\* during the search, calls made after backtracking included, the variable
\* returned is the unassigned variable that add_variable registered earliest.
C11_DefaultOrder ==
    [][(SelectVariable /\ ~heur.variable_heuristic)
          => Selected = EarliestAdded(Pending)]_vars

\* what does hold: the variable returned is the head of unassigned_var, which
\* is the earliest registered one as long as nothing has been unassigned
C11_HeadOfPendingList ==
    [][(SelectVariable /\ ~heur.variable_heuristic)
          => /\ Selected = csp.unassigned_var[1]
             /\ ~HasBacktracked => Selected = EarliestAdded(Pending)]_vars

(* C12 *)

DomainSize(v) == Len(csp.variables[v])

\* the unassigned variables no unassigned variable has a smaller domain than
Smallest == {v \in Pending : \A w \in Pending : DomainSize(v) <= DomainSize(w)}

\* the position of v in unassigned_var
PendingIndex(v) == CHOOSE k \in DOMAIN csp.unassigned_var : csp.unassigned_var[k] = v

\* C12: with MRV enabled, at every selection during the search, also after
\* backtracking, the variable returned is unassigned and no unassigned
\* variable has a strictly smaller current domain; when several share the
\* smallest size, the one add_variable registered first is returned.
C12_MRVTieBreak ==
    [][(SelectVariable /\ heur.variable_heuristic)
          => /\ Selected \in Smallest
             /\ Selected = EarliestAdded(Smallest)]_vars

\* what does hold: the variable returned has a smallest domain, and among
\* those it is the first in unassigned_var
C12_MRVSmallest ==
    [][(SelectVariable /\ heur.variable_heuristic)
          => /\ Selected \in Smallest
             /\ \A w \in Smallest : PendingIndex(Selected) <= PendingIndex(w)
             /\ ~HasBacktracked => Selected = EarliestAdded(Smallest)]_vars

(* C13 *)

\* the list of values the step SelectVariable has handed to the for loop
Ordered == stack'[Len(stack')].values

\* the constraints keyed on var whose partner is unassigned and still has
\* value in its domain
Constrains(var, value) ==
    {k \in DOMAIN KeyedOn(csp, var) :
        LET partner == KeyedOn(csp, var)[k][2][2]
        IN  partner \in Pending /\ value \in Range(csp.variables[partner])}

LCVKey(var, value) == Cardinality(Constrains(var, value))

IsPermutation(s, t) ==
    /\ Len(s) = Len(t)
    /\ \A v \in Range(s) \cup Range(t) : Occurrences(s, v) = Occurrences(t, v)

\* the position of the first v in s
IndexOf(s, v) == CHOOSE k \in DOMAIN s : s[k] = v /\ \A j \in 1..(k - 1) : s[j] # v

\* s is domain sorted ascending by LCVKey, values of equal key in domain order
StablySorted(s, var, domain) ==
    \A i \in DOMAIN s : \A j \in DOMAIN s :
        i < j => \/ LCVKey(var, s[i]) < LCVKey(var, s[j])
                 \/ /\ LCVKey(var, s[i]) = LCVKey(var, s[j])
                    /\ IndexOf(domain, s[i]) < IndexOf(domain, s[j])

\* C13: with LCV enabled, ordered_domain_value(var) returns a permutation of
\* var's current domain sorted ascending by the number of constraints keyed
\* on var whose partner is unassigned and still has the value in its domain;
\* values of equal count keep their domain order, and the domain itself is
\* not modified.
C13_LCVOrder ==
    [][(SelectVariable /\ heur.domain_heuristic)
          => /\ IsPermutation(Ordered, csp.variables[Selected])
             /\ StablySorted(Ordered, Selected, csp.variables[Selected])
             /\ csp'.variables = csp.variables]_vars

\* LCV has put a value behind one that follows it in the domain, and has
\* left two values of equal count in domain order
C13_Witness ==
    /\ Running /\ heur.domain_heuristic
    /\ Top.pc = "loop" /\ Top.i = 1
    /\ Top.values # csp.variables[Top.variable]
    /\ \E i \in DOMAIN Top.values : \E j \in DOMAIN Top.values :
          /\ i < j
          /\ LCVKey(Top.variable, Top.values[i]) = LCVKey(Top.variable, Top.values[j])
    /\ \E v \in Range(Colors) : \E k \in DOMAIN KeyedOn(csp, Top.variable) :
          LET partner == KeyedOn(csp, Top.variable)[k][2][2]
          IN  partner \in DOMAIN csp.assignments /\ v \in Range(csp.variables[partner])
                /\ v \in Range(Top.values)

(* C14 *)

\* the arc AC3Step takes from the queue
ArcPred == Head(Top.queue)[1]

ArcX == Head(Top.queue)[2][1]

ArcY == Head(Top.queue)[2][2]

\* some value of ys satisfies pred together with v
HasSupport(pred, v, ys) == \E k \in DOMAIN ys : Apply(pred, v, ys[k])

\* the values of X's domain without a support in Y's, before the step
Unsupported ==
    {v \in Range(csp.variables[ArcX]) : ~HasSupport(ArcPred, v, csp.variables[ArcY])}

\* what the step has added to the removal list of the call
Recorded ==
    LET log == stack'[Len(stack')].removed
    IN  SubSeq(log, Len(Top.removed) + 1, Len(log))

\* two values next to each other in X's domain are both without support
AdjacentUnsupported ==
    \E k \in 1..(Len(csp.variables[ArcX]) - 1) :
        csp.variables[ArcX][k] \in Unsupported /\ csp.variables[ArcX][k + 1] \in Unsupported

\* C14: when AC-3 processes an arc (X, Y, predicate), every value of X's
\* domain for which no value of Y's domain satisfies the predicate is removed
\* from X's domain and recorded as (X, value) in the removal list, also when
\* two or more adjacent values of X are unsupported or Y's domain is empty;
\* values that have a support are kept; so after the step X's domain is
\* empty or every remaining value of X has a support in Y.
C14_ArcStep ==
    [][AC3Step =>
          /\ csp'.variables[ArcX] =
                SelectSeq(csp.variables[ArcX], LAMBDA v : v \notin Unsupported)
          /\ Range(Recorded) = {<<ArcX, v>> : v \in Unsupported}
          /\ Len(Recorded) = Cardinality(Unsupported)
          /\ \/ csp'.variables[ArcX] = <<>>
             \/ \A v \in Range(csp'.variables[ArcX]) :
                    HasSupport(ArcPred, v, csp'.variables[ArcY])]_vars

\* what does hold: supported values are kept, what is removed is unsupported
\* and recorded, and all of the above when no two adjacent values of X are
\* unsupported
C14_ArcStepNoAdjacent ==
    [][AC3Step =>
          /\ \A v \in Range(csp.variables[ArcX]) \ Unsupported :
                v \in Range(csp'.variables[ArcX])
          /\ Range(Recorded) =
                {<<ArcX, v>> : v \in Range(csp.variables[ArcX]) \ Range(csp'.variables[ArcX])}
          /\ Range(Recorded) \subseteq {<<ArcX, v>> : v \in Unsupported}
          /\ ~AdjacentUnsupported =>
                /\ csp'.variables[ArcX] =
                      SelectSeq(csp.variables[ArcX], LAMBDA v : v \notin Unsupported)
                /\ Len(Recorded) = Cardinality(Unsupported)]_vars

(* C15 *)

\* a domain that held a value when an attempt still in flight began is
\* empty: it was emptied in that branch, and the branch's value is not yet
\* undone
Doomed ==
    \E k \in DOMAIN stack : \E v \in VarSet :
        /\ stack[k].pc = "wait"
        /\ stack[k].before[v] # <<>>
        /\ csp.variables[v] = <<>>

\* C15: whenever a variable's domain becomes empty during the search, by the
\* forward checking of remove_value or by AC-3, the current branch returns
\* failure without performing any further assign: the attempt counter does
\* not go up between the moment the domain is emptied and the moment that
\* branch's value is undone.
C15_EmptyDomainFailsAtOnce ==
    [][Doomed => (~CallsAssign /\ csp'.assignments_number = csp.assignments_number)]_vars

\* what does hold: the same with MRV enabled, AC-3 disabled and only !=
\* constraints, where the emptied domain is the next one selected
C15_FailsAtOnceWithMRV ==
    [][(Doomed /\ heur.variable_heuristic /\ ~heur.AC_3 /\ AllNeq)
          => (~CallsAssign /\ csp'.assignments_number = csp.assignments_number)]_vars

(* C16 *)

\* q is what is left of cs after some of its first elements are taken
IsSuffix(q, cs) == \E n \in 0..Len(cs) : q = SubSeq(cs, n + 1, Len(cs))

\* the chain A == B, B != C: both values of A have a support in B until the
\* arc (B, C) takes Red from B
Chain == << <<"eq", <<"A", "B">>>>, <<"neq", <<"B", "C">>>> >>

ChainModel ==
    /\ calls = Chain
    /\ added = [v \in VarSet |-> IF v = "C" THEN <<"Red">> ELSE <<"Red", "Blue">>]
    /\ heur.AC_3

\* the AC-3 invocation of the outermost call has returned and nothing has
\* been assigned yet
FirstInvocationReturned ==
    /\ Running /\ Len(stack) = 1
    /\ Top.pc = "select"
    /\ csp.assignments_number = 0

\* C16: in one AC-3 invocation the worklist is seeded with every registered
\* constraint in registration order, each arc is processed at most once and
\* none is put back, so the invocation ends after at most as many arc steps
\* as there are constraints; on a chain of three variables where a value of
\* X can be pruned only after a later arc has shrunk Y, that value is still
\* in X's domain when the invocation returns.
C16_SinglePass ==
    /\ heur.AC_3 => (stack[1].queue = csp.constraints
                       /\ PairsOf(stack[1].queue) = PairsOf(Registered))
    /\ [][(TryValue /\ heur.AC_3)
            => /\ stack'[Len(stack')].queue = csp.constraints
               /\ PairsOf(stack'[Len(stack')].queue) = PairsOf(Registered)]_vars
    /\ [][AC3Step => /\ Len(stack') = Len(stack)
                     /\ stack'[Len(stack')].queue = Tail(Top.queue)]_vars
    /\ [][(Running /\ ~AC3Step /\ Len(stack') = Len(stack))
            => stack'[Len(stack')].queue = Top.queue]_vars
    /\ [](\A k \in DOMAIN stack : IsSuffix(stack[k].queue, csp.constraints))
    /\ []((ChainModel /\ FirstInvocationReturned)
            => /\ csp.variables["B"] = <<"Blue">>
               /\ "Red" \in Range(csp.variables["A"])
               /\ ~HasSupport("eq", "Red", csp.variables["B"]))

\* the invocation on the chain has returned: the arc (B, C) has taken Red
\* from B, and Red is in A's domain without a support
C16_Witness ==
    /\ ChainModel /\ FirstInvocationReturned
    /\ Top.queue = <<>>
    /\ csp.variables["B"] = <<"Blue">>
    /\ csp.variables["A"] = <<"Red", "Blue">>

(* C17 *)

\* the frame keeps the list its for loop walks, and the loop only moves on
LoopAdvances(f, g) ==
    f.pc \in {"loop", "wait"} =>
        /\ g.variable = f.variable
        /\ g.values = f.values
        /\ g.i >= f.i
        /\ (f.pc = "wait" /\ g.pc = "loop") => g.i > f.i

\* no value is twice in the list a call walks
TriesOnce(f) == \A v \in Range(f.values) : Occurrences(f.values, v) = 1

DepthBound == Len(stack) <= Len(Vars) + 1

\* C17: for every model with finitely many variables and finite domains and
\* every heuristic configuration, solve eventually returns, success or
\* failure; the number of nested calls in flight never exceeds the number
\* of variables plus one, and each call tries each value of the selected
\* variable's domain at most once.
C17_Terminates ==
    /\ <>Returned
    /\ [](DepthBound /\ \A k \in DOMAIN stack : TriesOnce(stack[k]))
    /\ [][\A k \in DOMAIN stack \cap DOMAIN stack' :
            LoopAdvances(stack[k], stack'[k])]_vars

\* what does hold: solve always ends, with a result or with the KeyError of
\* remove_value, within the depth bound and trying no value twice
C17_Ends ==
    /\ <>(outcome # "running")
    /\ [](DepthBound /\ \A k \in DOMAIN stack : TriesOnce(stack[k]))
    /\ [][\A k \in DOMAIN stack \cap DOMAIN stack' :
            LoopAdvances(stack[k], stack'[k])]_vars

(* C18 *)

\* C18: with AC-3 disabled, for a model whose constraints are all !=
\* constraints registered in both directions, when the top-level solve
\* returns failure the assignment mapping is empty, every registered
\* variable is pending, and every variable's domain holds exactly the values
\* it was registered with, none lost and none twice.
C18_CleanFailure ==
    (outcome = "failure" /\ ~heur.AC_3 /\ AllNeq /\ BothDirections) =>
        /\ DOMAIN csp.assignments = {}
        /\ \A v \in DOMAIN added : Occurrences(csp.unassigned_var, v) = 1
        /\ Len(csp.unassigned_var) = Cardinality(DOMAIN added)
        /\ DOMAIN csp.variables = DOMAIN added
        /\ SameDomains(csp.variables, added)

\* solve has returned failure on such a model after undoing attempts on two
\* levels, and a domain is no longer in the order it was registered in
C18_Witness ==
    /\ outcome = "failure" /\ ~heur.AC_3 /\ AllNeq /\ BothDirections
    /\ csp.assignments_number > Len(Vars)
    /\ \E v \in VarSet : csp.variables[v] # added[v]

(* C19 *)

\* every variable has its value: the completing assign has been made
AllAssigned == Running /\ csp.unassigned_var = <<>>

\* C19: whenever solve returns success, the returned assignment has exactly
\* one entry per registered variable, no variable is pending, each assigned
\* value is a member of that variable's initially registered domain, and no
\* unassign happens after the completing assign: the first complete
\* assignment found is the one returned.
C19_SuccessShape ==
    /\ [](outcome = "success" =>
            /\ DOMAIN csp.assignments = DOMAIN added
            /\ csp.unassigned_var = <<>>
            /\ \A v \in DOMAIN added : csp.assignments[v] \in Range(added[v]))
    /\ [][AllAssigned =>
            /\ ~Backtrack
            /\ csp'.assignments = csp.assignments
            /\ csp'.unassigned_var = csp.unassigned_var
            /\ outcome' \in {"running", "success"}]_vars

\* solve has returned success after undoing attempts, and with a value that
\* is not the first of its variable's registered domain
C19_Witness ==
    /\ outcome = "success"
    /\ HasBacktracked
    /\ \E v \in VarSet : csp.assignments[v] # added[v][1]

====
